---- MODULE Spec2Model ----
(***************************************************************************)
(* PromptsGrid: a grid of prompt records with a shared create/edit form,   *)
(* a delete confirmation dialog and a copy-to-clipboard button.            *)
(*                                                                         *)
(* The component's React state is the model's state.  An event handler     *)
(* runs to its first await (or to its end) as one step and reads the       *)
(* state of the render it was created in; the code after an await runs as  *)
(* one later step, when the awaited call settles, and still reads the      *)
(* values the handler captured when it was invoked.  A call in flight is   *)
(* therefore kept with the values its continuation captured.  State        *)
(* updates of one step are batched: the last write to a field wins.        *)
(*                                                                         *)
(* Dialog and AlertDialog are modal: while one is open the controls of the *)
(* grid behind it (Create, Edit, Delete, Copy) cannot be clicked.  Both    *)
(* deliver a close request (Escape key, close control) through their       *)
(* onOpenChange callback.                                                  *)
(***************************************************************************)
EXTENDS Integers, Sequences, FiniteSets, Bags, TLC

\* ---------------------------------------------------------------- bounds
MaxPrompts == 2
MaxSaveCalls == 2
MaxClipboardCalls == 1
MaxTimers == 2

\* ---------------------------------------------------------------- values
\* null for number | null state (copiedId, promptToDelete, editingId)
null == -1
\* null for string | null state (error)
nullError == "<null>"
\* the ids the server gives records; 0 is one of them
Ids == {0, 1}
\* what a user types into one field
Typed == {"a"}
FieldNames == {"name", "description", "content"}
emptyForm == [name |-> "", description |-> "", content |-> ""]
genericSaveError == "Failed to save prompt."

Prompt(i, n, d, c) == [id |-> i, name |-> n, description |-> d, content |-> c]
\* the records the page is rendered with: their fields differ, and each
\* has a field the form's required attribute makes the user fill in
initialPrompts == <<Prompt(0, "a", "", ""), Prompt(1, "", "a", "")>>

\* what a rejected save can carry: an Error with a message, or a value
\* that is no Error
SaveFailures == {[isError |-> TRUE, message |-> "quota exceeded"],
                 [isError |-> FALSE, message |-> ""]}

VARIABLES prompts, copiedId, isFormOpen, formData, isSubmitting, error,
          deleteDialogOpen, promptToDelete, isDeleting, editingId,
          saveCalls, deleteCalls, hasClipboard, clipboardCalls, timers,
          textAreas, ev

\* saveCalls, deleteCalls, clipboardCalls: the calls in flight, each with the
\* values its continuation captured.  hasClipboard: whether navigator.clipboard
\* exists.  timers: the pending setTimeout callbacks, oldest first, each with
\* whether the copy that scheduled it had set the marker; they all have the
\* same delay, so they fire in the order they were scheduled.  textAreas:
\* the number of textarea elements attached to document.body.  ev: the
\* handler or continuation that ran last, with its arguments and the
\* notification it emitted.
formVars == <<isFormOpen, formData, isSubmitting, error, editingId>>
deleteVars == <<deleteDialogOpen, promptToDelete, isDeleting>>
copyVars == <<copiedId, hasClipboard, clipboardCalls, timers, textAreas>>
vars == <<prompts, formVars, deleteVars, copyVars, saveCalls, deleteCalls, ev>>

\* ---------------------------------------------------------------- helpers
\* slip: the updated record is moved to the front of the collection
MapReplace_movesToFront(ps, k, u) ==
    IF \E i \in 1..Len(ps) : ps[i].id = k
    THEN <<u>> \o SelectSeq(ps, LAMBDA p : p.id # k)
    ELSE ps

RECURSIVE MapReplace(_, _, _)
\* prevPrompts.map((p) => (p.id === editingId ? updatedPrompt : p))
MapReplace(ps, k, u) ==
    IF ps = <<>> THEN <<>>
    ELSE <<IF Head(ps).id = k THEN u ELSE Head(ps)>> \o MapReplace(Tail(ps), k, u)

\* slip: the new record is put after the others
Prepend_appends(r, ps) == ps \o <<r>>

\* [newPrompt, ...prevPrompts]
Prepend(r, ps) == <<r>> \o ps

\* slip: the filter's test is inverted, the matching records are kept
FilterOut_keepsMatch(ps, k) == SelectSeq(ps, LAMBDA p : p.id = k)

RECURSIVE FilterOut(_, _)
\* prevPrompts.filter((p) => p.id !== promptToDelete)
FilterOut(ps, k) ==
    IF ps = <<>> THEN <<>>
    ELSE (IF Head(ps).id # k THEN <<Head(ps)>> ELSE <<>>) \o FilterOut(Tail(ps), k)

\* slip: no fallback for a failure that is no Error
SaveErrorText_noFallback(err) == err.message

\* err instanceof Error ? err.message : "Failed to save prompt."
SaveErrorText(err) == IF err.isError THEN err.message ELSE genericSaveError

\* the required attribute of the three inputs: the browser does not fire
\* onSubmit while one of them is empty
FormValid(d) == d.name # "" /\ d.description # "" /\ d.content # ""

\* a modal dialog is open: the grid behind it takes no clicks
ModalOpen == isFormOpen \/ deleteDialogOpen

\* disabled={isSubmitting} on the inputs, Cancel and the submit button
FormControlsDisabled == isSubmitting

\* slip: the confirmation's buttons are never disabled
DeleteControlsDisabled_never == FALSE

\* disabled={isDeleting} on AlertDialogCancel and AlertDialogAction
DeleteControlsDisabled == isDeleting

\* onInteractOutside: if (isSubmitting) e.preventDefault()
OutsidePrevented == isSubmitting

\* ---------------------------------------------------------------- state
Init ==
    /\ prompts = initialPrompts
    /\ copiedId = null
    /\ isFormOpen = FALSE
    /\ formData = emptyForm
    /\ isSubmitting = FALSE
    /\ error = nullError
    /\ deleteDialogOpen = FALSE
    /\ promptToDelete = null
    /\ isDeleting = FALSE
    /\ editingId = null
    /\ saveCalls = EmptyBag
    /\ deleteCalls = EmptyBag
    /\ hasClipboard \in BOOLEAN
    /\ clipboardCalls = EmptyBag
    /\ timers = <<>>
    /\ textAreas = 0
    /\ ev = [op |-> "init"]

\* ---------------------------------------------------------------- form
\* slip: the draft is left as it was
resetAndCloseForm_keepsDraft ==
    /\ isFormOpen' = FALSE
    /\ formData' = formData
    /\ error' = nullError
    /\ isSubmitting' = FALSE
    /\ editingId' = null

\* the five writes of resetAndCloseForm
resetAndCloseForm ==
    /\ isFormOpen' = FALSE
    /\ formData' = emptyForm
    /\ error' = nullError
    /\ isSubmitting' = FALSE
    /\ editingId' = null

\* slip: the button only shows the form
CreateClick_onlyOpens ==
    /\ ~ModalOpen
    /\ isFormOpen' = TRUE
    /\ ev' = [op |-> "createClick"]
    /\ UNCHANGED <<prompts, formData, error, isSubmitting, editingId,
                   deleteVars, copyVars, saveCalls, deleteCalls>>

\* Create Prompt button: setEditingId(null); resetAndCloseForm();
\* setIsFormOpen(true); then the DialogTrigger asks onOpenChange(true)
CreateClick ==
    /\ ~ModalOpen
    /\ isFormOpen' = TRUE
    /\ formData' = emptyForm
    /\ error' = nullError
    /\ isSubmitting' = FALSE
    /\ editingId' = null
    /\ ev' = [op |-> "createClick"]
    /\ UNCHANGED <<prompts, deleteVars, copyVars, saveCalls, deleteCalls>>

\* slip: the description is not copied into the draft
handleEditClick_noDescription(promptToEdit) ==
    /\ ~ModalOpen
    /\ editingId' = promptToEdit.id
    /\ formData' = [name |-> promptToEdit.name,
                    description |-> "",
                    content |-> promptToEdit.content]
    /\ error' = nullError
    /\ isFormOpen' = TRUE
    /\ ev' = [op |-> "editClick", prompt |-> promptToEdit]
    /\ UNCHANGED <<prompts, isSubmitting, deleteVars, copyVars, saveCalls, deleteCalls>>

handleEditClick(promptToEdit) ==
    /\ ~ModalOpen
    /\ editingId' = promptToEdit.id
    /\ formData' = [name |-> promptToEdit.name,
                    description |-> promptToEdit.description,
                    content |-> promptToEdit.content]
    /\ error' = nullError
    /\ isFormOpen' = TRUE
    /\ ev' = [op |-> "editClick", prompt |-> promptToEdit]
    /\ UNCHANGED <<prompts, isSubmitting, deleteVars, copyVars, saveCalls, deleteCalls>>

\* slip: the previous draft is not spread into the new one
handleInputChange_replaces(name, value) ==
    /\ isFormOpen
    /\ ~FormControlsDisabled
    /\ formData' = [emptyForm EXCEPT ![name] = value]
    /\ ev' = [op |-> "inputChange", name |-> name, value |-> value]
    /\ UNCHANGED <<prompts, isFormOpen, isSubmitting, error, editingId,
                   deleteVars, copyVars, saveCalls, deleteCalls>>

handleInputChange(name, value) ==
    /\ isFormOpen
    /\ ~FormControlsDisabled
    /\ formData' = [formData EXCEPT ![name] = value]
    /\ ev' = [op |-> "inputChange", name |-> name, value |-> value]
    /\ UNCHANGED <<prompts, isFormOpen, isSubmitting, error, editingId,
                   deleteVars, copyVars, saveCalls, deleteCalls>>

\* Cancel button of the form
CancelClick ==
    /\ isFormOpen
    /\ ~FormControlsDisabled
    /\ resetAndCloseForm
    /\ ev' = [op |-> "cancelClick"]
    /\ UNCHANGED <<prompts, deleteVars, copyVars, saveCalls, deleteCalls>>

\* a click outside the form: dismissed through onOpenChange(false) unless
\* onInteractOutside prevented it
InteractOutside ==
    /\ isFormOpen
    /\ ~OutsidePrevented
    /\ resetAndCloseForm
    /\ ev' = [op |-> "interactOutside"]
    /\ UNCHANGED <<prompts, deleteVars, copyVars, saveCalls, deleteCalls>>

\* Dialog onOpenChange(open) with open = false, as the Escape key and the
\* dialog's close control deliver it: if (!open) resetAndCloseForm()
FormOnOpenChangeClose ==
    /\ isFormOpen
    /\ resetAndCloseForm
    /\ ev' = [op |-> "formClose"]
    /\ UNCHANGED <<prompts, deleteVars, copyVars, saveCalls, deleteCalls>>

\* JavaScript truthiness of a value of type number | null, as the
\* conditional expressions of the dialog test editingId
Truthy(n) == n # null /\ n # 0

\* <DialogTitle>{editingId ? 'Edit Prompt' : 'Create New Prompt'}
DialogTitle == IF Truthy(editingId) THEN "Edit Prompt" ELSE "Create New Prompt"

\* the label of the submit button
SubmitLabel ==
    IF isSubmitting
    THEN (IF Truthy(editingId) THEN "Saving..." ELSE "Creating...")
    ELSE (IF Truthy(editingId) THEN "Save Changes" ELSE "Create Prompt")

\* the function handleSubmit calls: if (editingId !== null) updatePrompt,
\* else createPrompt
SubmitBranch == IF editingId # null THEN "updatePrompt" ELSE "createPrompt"

\* the call handleSubmit starts, with what its continuation captured
SaveCall == [editingId |-> editingId, formData |-> formData]

\* handleSubmit up to its await
handleSubmit ==
    /\ isFormOpen
    /\ ~FormControlsDisabled
    /\ FormValid(formData)
    /\ isSubmitting' = TRUE
    /\ error' = nullError
    /\ saveCalls' = saveCalls (+) SetToBag({SaveCall})
    /\ ev' = [op |-> "submit", call |-> SaveCall]
    /\ UNCHANGED <<prompts, isFormOpen, formData, editingId,
                   deleteVars, copyVars, deleteCalls>>

\* the records updatePrompt / createPrompt can answer a call with
SaveResponses(call) ==
    {Prompt(i, call.formData.name, call.formData.description, call.formData.content) :
        i \in Ids}

\* update(id, draft) -> Prompt: the returned record must carry the same id
UpdateContract(call, res) == res.id = call.editingId

\* slip: the continuation reads the editing target of the current render
\* instead of the one the handler captured
SavedPrompts_currentTarget(call, res) ==
    IF editingId # null
    THEN MapReplace(prompts, editingId, res)
    ELSE Prepend(res, prompts)

\* slip: an update whose target is no longer in the collection inserts it
SavedPrompts_upserts(call, res) ==
    IF call.editingId # null /\ (\E i \in 1..Len(prompts) : prompts[i].id = call.editingId)
    THEN MapReplace(prompts, call.editingId, res)
    ELSE Prepend(res, prompts)

\* the collection after a save settled: update path or create path
SavedPrompts(call, res) ==
    IF call.editingId # null
    THEN MapReplace(prompts, call.editingId, res)
    ELSE Prepend(res, prompts)

\* handleSubmit after its await, the call resolved
handleSubmitResolved(call, res) ==
    /\ BagIn(call, saveCalls)
    /\ saveCalls' = saveCalls (-) SetToBag({call})
    /\ prompts' = SavedPrompts(call, res)
    /\ resetAndCloseForm
    /\ ev' = [op |-> "saveOk", call |-> call, res |-> res]
    /\ UNCHANGED <<deleteVars, copyVars, deleteCalls>>

\* handleSubmit's catch, the call rejected
handleSubmitRejected(call, err) ==
    /\ BagIn(call, saveCalls)
    /\ saveCalls' = saveCalls (-) SetToBag({call})
    /\ error' = SaveErrorText(err)
    /\ isSubmitting' = FALSE
    /\ ev' = [op |-> "saveFail", call |-> call, err |-> err]
    /\ UNCHANGED <<prompts, isFormOpen, formData, editingId,
                   deleteVars, copyVars, deleteCalls>>

\* ---------------------------------------------------------------- delete
handleDeleteClick(promptId) ==
    /\ ~ModalOpen
    /\ promptToDelete' = promptId
    /\ deleteDialogOpen' = TRUE
    /\ ev' = [op |-> "deleteClick", id |-> promptId]
    /\ UNCHANGED <<prompts, isDeleting, formVars, copyVars, saveCalls, deleteCalls>>

\* AlertDialogCancel: closes through onOpenChange = setDeleteDialogOpen
DeleteCancelClick ==
    /\ deleteDialogOpen
    /\ ~DeleteControlsDisabled
    /\ deleteDialogOpen' = FALSE
    /\ ev' = [op |-> "deleteCancel"]
    /\ UNCHANGED <<prompts, promptToDelete, isDeleting, formVars, copyVars,
                   saveCalls, deleteCalls>>

\* AlertDialog onOpenChange(false) as the Escape key delivers it
DeleteOnOpenChangeClose ==
    /\ deleteDialogOpen
    /\ deleteDialogOpen' = FALSE
    /\ ev' = [op |-> "deleteClose"]
    /\ UNCHANGED <<prompts, promptToDelete, isDeleting, formVars, copyVars,
                   saveCalls, deleteCalls>>

\* handleDeleteConfirm up to its await; returns at once without a target
handleDeleteConfirm ==
    /\ deleteDialogOpen
    /\ ~DeleteControlsDisabled
    /\ IF promptToDelete = null
       THEN /\ ev' = [op |-> "deleteConfirmNoTarget"]
            /\ UNCHANGED <<isDeleting, deleteCalls>>
       ELSE /\ isDeleting' = TRUE
            /\ deleteCalls' = deleteCalls (+) SetToBag({promptToDelete})
            /\ ev' = [op |-> "deleteConfirm", id |-> promptToDelete]
    /\ UNCHANGED <<prompts, deleteDialogOpen, promptToDelete, formVars, copyVars, saveCalls>>

\* slip: the pending target is not cleared
deleteFinally_keepsTarget ==
    /\ isDeleting' = FALSE
    /\ deleteDialogOpen' = FALSE
    /\ UNCHANGED promptToDelete

\* the three writes of handleDeleteConfirm's finally
deleteFinally ==
    /\ isDeleting' = FALSE
    /\ deleteDialogOpen' = FALSE
    /\ promptToDelete' = null

\* handleDeleteConfirm after its await, the call resolved
handleDeleteResolved(id) ==
    /\ BagIn(id, deleteCalls)
    /\ deleteCalls' = deleteCalls (-) SetToBag({id})
    /\ prompts' = FilterOut(prompts, id)
    /\ deleteFinally
    /\ ev' = [op |-> "deleteOk", id |-> id]
    /\ UNCHANGED <<formVars, copyVars, saveCalls>>

\* slip: the record is removed in the finally block, whatever the outcome
handleDeleteRejected_removes(id) ==
    /\ BagIn(id, deleteCalls)
    /\ deleteCalls' = deleteCalls (-) SetToBag({id})
    /\ prompts' = FilterOut(prompts, id)
    /\ deleteFinally
    /\ ev' = [op |-> "deleteFail", id |-> id]
    /\ UNCHANGED <<formVars, copyVars, saveCalls>>

\* handleDeleteConfirm's catch, the call rejected
handleDeleteRejected(id) ==
    /\ BagIn(id, deleteCalls)
    /\ deleteCalls' = deleteCalls (-) SetToBag({id})
    /\ deleteFinally
    /\ ev' = [op |-> "deleteFail", id |-> id]
    /\ UNCHANGED <<prompts, formVars, copyVars, saveCalls>>

\* ---------------------------------------------------------------- copy
\* document.execCommand('copy'): returns true, returns false, or throws
ExecCommandOutcomes == {"true", "false", "throw"}

\* setTimeout(() => setCopiedId(null), 2000), reached after a copy that
\* set the marker (marked) or after a failed fallback copy
scheduleTimer(marked) == timers' = Append(timers, marked)

\* handleCopyClick with navigator.clipboard: up to await writeText(content)
handleCopyClick(promptId) ==
    /\ ~ModalOpen
    /\ hasClipboard
    /\ clipboardCalls' = clipboardCalls (+) SetToBag({promptId})
    /\ ev' = [op |-> "copyClick", id |-> promptId]
    /\ UNCHANGED <<prompts, copiedId, hasClipboard, textAreas, timers, formVars, deleteVars,
                   saveCalls, deleteCalls>>

\* handleCopyClick after writeText resolved
handleCopyResolved(promptId) ==
    /\ BagIn(promptId, clipboardCalls)
    /\ clipboardCalls' = clipboardCalls (-) SetToBag({promptId})
    /\ copiedId' = promptId
    /\ scheduleTimer(TRUE)
    /\ ev' = [op |-> "copyOk", id |-> promptId, toast |-> "success"]
    /\ UNCHANGED <<prompts, hasClipboard, textAreas, formVars, deleteVars, saveCalls, deleteCalls>>

\* handleCopyClick's outer catch, writeText rejected
handleCopyRejected(promptId) ==
    /\ BagIn(promptId, clipboardCalls)
    /\ clipboardCalls' = clipboardCalls (-) SetToBag({promptId})
    /\ ev' = [op |-> "copyFail", id |-> promptId, toast |-> "error"]
    /\ UNCHANGED <<prompts, copiedId, hasClipboard, textAreas, timers, formVars, deleteVars,
                   saveCalls, deleteCalls>>

\* slip: no catch around execCommand, a failure leaves the inner try by
\* an exception
InnerTryCompletes_noCatch(outcome) == outcome = "true"

\* the inner try/catch ends normally, so that removeChild and setTimeout
\* are reached: the try block ends (execCommand returned true), or catch
\* (err) takes the Error thrown on false and the exception of execCommand
InnerTryCompletes(outcome) == outcome = "true" \/ outcome \in {"false", "throw"}

\* handleCopyClick without navigator.clipboard: the textarea fallback, with
\* document.execCommand('copy') returning true, returning false or throwing;
\* appendChild(textArea) before the inner try, removeChild(textArea) after
handleCopyClickFallback(promptId, outcome) ==
    /\ ~ModalOpen
    /\ ~hasClipboard
    /\ copiedId' = IF outcome = "true" THEN promptId ELSE copiedId
    /\ textAreas' = (textAreas + 1) - (IF InnerTryCompletes(outcome) THEN 1 ELSE 0)
    /\ IF InnerTryCompletes(outcome)
       THEN scheduleTimer(outcome = "true")
       ELSE UNCHANGED timers
    /\ ev' = [op |-> "copyFallback", id |-> promptId, outcome |-> outcome,
              toast |-> IF outcome = "true" THEN "success" ELSE "error"]
    /\ UNCHANGED <<prompts, hasClipboard, clipboardCalls, formVars, deleteVars,
                   saveCalls, deleteCalls>>

\* the timer's callback: setCopiedId(null)
TimerFired ==
    /\ timers # <<>>
    /\ timers' = Tail(timers)
    /\ copiedId' = null
    /\ ev' = [op |-> "timer"]
    /\ UNCHANGED <<prompts, hasClipboard, textAreas, clipboardCalls, formVars, deleteVars,
                   saveCalls, deleteCalls>>

\* ------------------------------------------- the earlier version's buttons
\* navigator.clipboard.writeText(prompt.content), not awaited: the promise
\* resolves or is rejected, or the call throws for want of
\* navigator.clipboard
InlineWriteOutcomes == IF hasClipboard THEN {"resolved", "rejected"} ELSE {"throws"}

\* Copy button onClick of the earlier version: writeText, setCopiedId,
\* setTimeout; a throw of the first statement ends the handler
InlineCopyClick(promptId, outcome) ==
    /\ ~ModalOpen
    /\ outcome \in InlineWriteOutcomes
    /\ IF outcome = "throws"
       THEN UNCHANGED <<copiedId, timers>>
       ELSE /\ copiedId' = promptId
            /\ scheduleTimer(TRUE)
    /\ ev' = [op |-> "inlineCopy", id |-> promptId, outcome |-> outcome,
              toast |-> "none"]
    /\ UNCHANGED <<prompts, hasClipboard, textAreas, clipboardCalls, formVars, deleteVars,
                   saveCalls, deleteCalls>>

\* Delete button onClick of the earlier version: console.log('Delete', id)
InlineDeleteClick(promptId) ==
    /\ ~ModalOpen
    /\ ev' = [op |-> "inlineDelete", id |-> promptId]
    /\ UNCHANGED <<prompts, formVars, deleteVars, copyVars, saveCalls, deleteCalls>>

\* ---------------------------------------------------------------- next
\* the records the grid renders a card for
Rendered == {prompts[i] : i \in 1..Len(prompts)}

\* the bounds of the model: calls in flight, records, pending timers
SaveWithinBounds ==
    /\ BagCardinality(saveCalls) < MaxSaveCalls
    /\ editingId = null => Len(prompts) + BagCardinality(saveCalls) < MaxPrompts
ClipboardWithinBounds == BagCardinality(clipboardCalls) < MaxClipboardCalls
TimersWithinBounds == Len(timers) < MaxTimers

\* the form and the calls it starts
NextForm ==
    \/ CreateClick
    \/ \E p \in Rendered : handleEditClick(p)
    \/ \E f \in FieldNames, v \in Typed : handleInputChange(f, v)
    \/ CancelClick
    \/ InteractOutside
    \/ FormOnOpenChangeClose
    \/ (SaveWithinBounds /\ handleSubmit)
    \/ \E c \in BagToSet(saveCalls) : \E r \in SaveResponses(c) : handleSubmitResolved(c, r)
    \/ \E c \in BagToSet(saveCalls) : \E e \in SaveFailures : handleSubmitRejected(c, e)

\* the delete confirmation and the calls it starts
NextDelete ==
    \/ \E p \in Rendered : handleDeleteClick(p.id)
    \/ DeleteCancelClick
    \/ DeleteOnOpenChangeClose
    \/ handleDeleteConfirm
    \/ \E k \in BagToSet(deleteCalls) : handleDeleteResolved(k)
    \/ \E k \in BagToSet(deleteCalls) : handleDeleteRejected(k)

\* the form, the delete confirmation and the calls they start
NextCrud == NextForm \/ NextDelete

\* the copy button and its timer
NextCopy ==
    \/ \E p \in Rendered : (ClipboardWithinBounds /\ handleCopyClick(p.id))
    \/ \E k \in BagToSet(clipboardCalls) : (TimersWithinBounds /\ handleCopyResolved(k))
    \/ \E k \in BagToSet(clipboardCalls) : handleCopyRejected(k)
    \/ \E p \in Rendered : \E o \in ExecCommandOutcomes :
          (TimersWithinBounds /\ handleCopyClickFallback(p.id, o))
    \/ TimerFired

Next == NextCrud \/ NextCopy

\* the whole component
Spec == Init /\ [][Next]_vars

\* The form and the delete flow alone.  The copy button and its timer read
\* and write none of the state these use and are enabled or not by
\* ModalOpen alone, so they are left out and their state stays as
\* constructed.
InitCrud == Init /\ hasClipboard
SpecCrud == InitCrud /\ [][NextCrud]_vars

\* The form and the delete confirmation on a page rendered with three
\* records, so that two records remain, in an order, when one is deleted.
threePrompts == initialPrompts \o <<Prompt(2, "", "", "a")>>
InitThree ==
    /\ prompts = threePrompts
    /\ copiedId = null
    /\ isFormOpen = FALSE
    /\ formData = emptyForm
    /\ isSubmitting = FALSE
    /\ error = nullError
    /\ deleteDialogOpen = FALSE
    /\ promptToDelete = null
    /\ isDeleting = FALSE
    /\ editingId = null
    /\ saveCalls = EmptyBag
    /\ deleteCalls = EmptyBag
    /\ hasClipboard = TRUE
    /\ clipboardCalls = EmptyBag
    /\ timers = <<>>
    /\ textAreas = 0
    /\ ev = [op |-> "init"]
SpecThree == InitThree /\ [][NextCrud]_vars

\* The buttons of the cards (copy, with its timer, and delete, with its
\* confirmation), the form left closed.
NextCards == NextCopy \/ NextDelete
SpecCopy == Init /\ [][NextCards]_vars

\* The earlier version of the component (prompts-grid.tsx under
\* _components): the same form, a Copy button with an inline handler and a
\* Delete button that only logs.
NextInline ==
    \/ NextForm
    \/ \E p \in Rendered : \E o \in InlineWriteOutcomes :
          (TimersWithinBounds /\ InlineCopyClick(p.id, o))
    \/ \E p \in Rendered : InlineDeleteClick(p.id)
    \/ TimerFired
SpecInline == Init /\ [][NextInline]_vars

\* ---------------------------------------------------------------- claims
\* the ids of the records of a collection
IdsOf(ps) == {ps[i].id : i \in 1..Len(ps)}

\* C1: the collection changes only in the step in which a create, update
\* or delete call settles successfully; every other step (opening, closing
\* or editing the form, requesting or cancelling a delete, copying, a timer
\* firing, a call being started, a call failing) leaves it unchanged.
C1_CollectionChangesOnlyOnSuccess ==
    [][prompts' # prompts => ev'.op \in {"saveOk", "deleteOk"}]_vars

\* C1 witness: the collection has changed and a timer has then fired
C1_Witness == prompts # initialPrompts /\ ev.op = "timer"

\* C2: when a submit made with no editing target settles successfully with
\* record r, the collection becomes r followed by the previous collection,
\* the form is closed, and draft, error, editing target and submitting flag
\* are neutral again.
C2_CreateSuccess ==
    [][(ev'.op = "saveOk" /\ ev'.call.editingId = null) =>
          /\ prompts' = <<ev'.res>> \o prompts
          /\ isFormOpen' = FALSE
          /\ formData' = [name |-> "", description |-> "", content |-> ""]
          /\ error' = nullError
          /\ editingId' = null
          /\ isSubmitting' = FALSE]_vars

\* C2 witness: a create has settled successfully in front of a record
C2_Witness ==
    /\ ev.op = "saveOk"
    /\ ev.call.editingId = null
    /\ Len(prompts) >= 2
    /\ prompts[1] = ev.res
    /\ prompts[2] # ev.res

\* C3: when a submit made with editing target k settles successfully with
\* record u, the collection keeps its length and order, every element whose
\* id is k is replaced by u, every other element is unchanged and the form
\* is closed; k is the editing target at the time submit was invoked.
C3_UpdateSuccess ==
    [][/\ ev'.op = "submit" =>
             /\ ev'.call.editingId = editingId
             /\ BagIn(ev'.call, saveCalls')
       /\ (ev'.op = "saveOk" /\ ev'.call.editingId # null) =>
             /\ BagIn(ev'.call, saveCalls)
             /\ Len(prompts') = Len(prompts)
             /\ \A i \in 1..Len(prompts) :
                   prompts'[i] = IF prompts[i].id = ev'.call.editingId
                                 THEN ev'.res ELSE prompts[i]
             /\ isFormOpen' = FALSE]_vars

\* C3 witness: an update has settled successfully and replaced one of two
\* records, the other one being kept
C3_Witness ==
    /\ ev.op = "saveOk"
    /\ ev.call.editingId # null
    /\ Len(prompts) = 2
    /\ \E i, j \in 1..2 : prompts[i] = ev.res /\ prompts[j] # ev.res
    /\ ~isFormOpen

\* C4: when a create or update call is rejected the form stays as open as
\* it was, the error field is the failure's message, or the generic message
\* when the failure carries none, the submitting flag is released, and the
\* collection, the draft and the editing target are unchanged.
C4_SaveRejected ==
    [][ev'.op = "saveFail" =>
          /\ isFormOpen' = isFormOpen
          /\ error' = IF ev'.err.isError THEN ev'.err.message
                      ELSE "Failed to save prompt."
          /\ isSubmitting' = FALSE
          /\ prompts' = prompts
          /\ formData' = formData
          /\ editingId' = editingId]_vars

\* C4 witness: a save was rejected by a failure that carries no message,
\* and the form is still open on its draft
C4_Witness ==
    /\ ev.op = "saveFail"
    /\ ~ev.err.isError
    /\ isFormOpen
    /\ error = "Failed to save prompt."
    /\ formData = ev.call.formData

\* C5: at most one create/update call is in flight at any time.
C5_AtMostOneSaveInFlight == BagCardinality(saveCalls) <= 1

\* C6: while a submission is in flight no cancel or dismissal of the form
\* (Cancel button, outside click, a close through onOpenChange) changes
\* whether the form is open, the draft, the editing target or the
\* submitting flag.
C6_CancelInFlightHasNoEffect ==
    [][(/\ isSubmitting
        /\ saveCalls # EmptyBag
        /\ ev'.op \in {"cancelClick", "interactOutside", "formClose"}) =>
          UNCHANGED <<isFormOpen, formData, editingId, isSubmitting>>]_vars

\* C7: a delete requested on id k and confirmed, whose call resolves,
\* removes from the collection exactly the elements whose id is k, the
\* others staying in order; afterwards the pending target is absent, the
\* confirmation is closed and the deleting flag is false.
C7_DeleteSuccess ==
    [][/\ ev'.op = "deleteClick" => promptToDelete' = ev'.id
       /\ ev'.op = "deleteConfirm" =>
             /\ ev'.id = promptToDelete
             /\ BagIn(ev'.id, deleteCalls')
       /\ ev'.op = "deleteOk" =>
             /\ BagIn(ev'.id, deleteCalls)
             /\ prompts' = SelectSeq(prompts, LAMBDA p : p.id # ev'.id)
             /\ promptToDelete' = null
             /\ deleteDialogOpen' = FALSE
             /\ isDeleting' = FALSE]_vars

\* C7 witness: a delete has resolved, its record is gone and another stays
C7_Witness ==
    /\ ev.op = "deleteOk"
    /\ ev.id \notin IdsOf(prompts)
    /\ Len(prompts) >= 1
    /\ promptToDelete = null

\* C8: a rejected delete leaves the collection unchanged, and a settled
\* delete, resolved or rejected, clears the deleting flag, closes the
\* confirmation and clears the pending target.
C8_DeleteSettled ==
    [][/\ ev'.op = "deleteFail" => prompts' = prompts
       /\ ev'.op \in {"deleteOk", "deleteFail"} =>
             /\ isDeleting' = FALSE
             /\ deleteDialogOpen' = FALSE
             /\ promptToDelete' = null]_vars

\* C8 witness: a delete was rejected and its record is still there
C8_Witness ==
    /\ ev.op = "deleteFail"
    /\ ev.id \in IdsOf(prompts)
    /\ ~isDeleting
    /\ ~deleteDialogOpen
    /\ promptToDelete = null

\* C9: at most one delete call is in flight at any time, and the deleting
\* flag is true exactly while one is.
C9_OneDeleteInFlight ==
    /\ BagCardinality(deleteCalls) <= 1
    /\ isDeleting <=> deleteCalls # EmptyBag

\* C9 witness: a delete is in flight while the confirmation is open again
\* on another record
C9_Witness ==
    /\ BagCardinality(deleteCalls) = 1
    /\ isDeleting
    /\ deleteDialogOpen
    /\ promptToDelete # null
    /\ ~BagIn(promptToDelete, deleteCalls)

\* C10: the confirmation can be cancelled exactly when it is open and no
\* delete is in flight; a cancel closes it, clears the pending target,
\* starts no delete call and leaves the collection unchanged.
C10_DeleteCancel ==
    [][ev'.op = "deleteCancel" =>
          /\ deleteDialogOpen /\ deleteCalls = EmptyBag
          /\ deleteDialogOpen' = FALSE
          /\ promptToDelete' = null
          /\ deleteCalls' = deleteCalls
          /\ prompts' = prompts]_vars

\* ------------------------------------------------------------ copy claims
\* the step is a copy that succeeded: writeText resolved, execCommand
\* returned true, or the earlier version's writeText resolved
CopySucceeded(e) ==
    \/ e.op = "copyOk"
    \/ e.op = "copyFallback" /\ e.outcome = "true"
    \/ e.op = "inlineCopy" /\ e.outcome = "resolved"

\* the step is a copy that failed: writeText rejected, execCommand returned
\* false or threw, or the earlier version's writeText was rejected or threw
CopyFailed(e) ==
    \/ e.op = "copyFail"
    \/ e.op = "copyFallback" /\ e.outcome # "true"
    \/ e.op = "inlineCopy" /\ e.outcome # "resolved"

\* C11: a successful copy on record r sets the copied marker to r (whatever
\* record was marked before, so at most one record is marked), emits
\* exactly one success notification and schedules one timer; the timer's
\* callback clears the marker.
C11_SuccessfulCopy ==
    [][/\ CopySucceeded(ev') =>
            /\ copiedId' = ev'.id
            /\ ev'.toast = "success"
            /\ Len(timers') = Len(timers) + 1
       /\ ev'.op = "timer" => copiedId' = null]_vars

\* C12: when a copy attempt fails, a failure notification is emitted and no
\* success notification, and the attempt does not set the copied marker.
C12_FailedCopy ==
    [][CopyFailed(ev') =>
          /\ ev'.toast = "error"
          /\ copiedId' = copiedId]_vars

\* ------------------------------------------------------------ form claims
\* the ways the form is cancelled or closed: Cancel, a click outside,
\* Escape or the close control
FormCloseOps == {"cancelClick", "interactOutside", "formClose"}

\* C13: cancelling or closing the form when no submission is in flight
\* closes the form, resets the draft to three empty strings, clears the
\* error and makes the editing target absent, whatever they were before;
\* the collection is unchanged.
C13_CancelResetsForm ==
    [][(ev'.op \in FormCloseOps /\ saveCalls = EmptyBag) =>
          /\ ~isFormOpen'
          /\ formData' = emptyForm
          /\ error' = nullError
          /\ editingId' = null
          /\ prompts' = prompts]_vars

\* the form was cancelled or closed with no call in flight, after the
\* collection had changed
C13_Witness ==
    /\ ev.op \in FormCloseOps
    /\ saveCalls = EmptyBag
    /\ prompts # initialPrompts
    /\ ~isFormOpen

\* C14: opening edit on a record p sets the editing target to p.id and the
\* draft to p's name, description and content, clears the error and shows
\* the form, whatever the previous form state; the collection is unchanged.
C14_EditOpensWithRecord ==
    [][ev'.op = "editClick" =>
          /\ editingId' = ev'.prompt.id
          /\ formData' = [name |-> ev'.prompt.name,
                          description |-> ev'.prompt.description,
                          content |-> ev'.prompt.content]
          /\ error' = nullError
          /\ isFormOpen'
          /\ prompts' = prompts]_vars

\* edit was opened on a record with a description, while an earlier call
\* is still in flight
C14_Witness ==
    /\ ev.op = "editClick"
    /\ ev.prompt.description # ""
    /\ editingId = ev.prompt.id
    /\ saveCalls # EmptyBag

\* C15: opening the form for create leaves the form shown, the draft three
\* empty strings, the editing target absent and the error cleared,
\* whatever the previous form state.
C15_CreateOpensEmpty ==
    [][ev'.op = "createClick" =>
          /\ isFormOpen'
          /\ formData' = emptyForm
          /\ editingId' = null
          /\ error' = nullError]_vars

\* create was opened after the collection had changed, an earlier call
\* still in flight
C15_Witness ==
    /\ ev.op = "createClick"
    /\ isFormOpen
    /\ formData = emptyForm
    /\ prompts # initialPrompts
    /\ saveCalls # EmptyBag

\* C16: a field change on one of name, description, content sets that
\* field of the draft to the new value and leaves the two other fields,
\* the editing target, the error, the form-open flag and the collection
\* unchanged.
C16_FieldChange ==
    [][ev'.op = "inputChange" =>
          /\ formData'[ev'.name] = ev'.value
          /\ \A f \in FieldNames \ {ev'.name} : formData'[f] = formData[f]
          /\ editingId' = editingId
          /\ error' = error
          /\ isFormOpen' = isFormOpen
          /\ prompts' = prompts]_vars

\* a field was changed in an edit session whose draft has another
\* non-empty field, the error of a failed submit still shown
C16_Witness ==
    /\ ev.op = "inputChange"
    /\ \E f \in FieldNames \ {ev.name} : formData[f] # ""
    /\ editingId # null
    /\ error # nullError

\* C17: the form's displayed mode agrees with the branch submit takes, for
\* every record id including 0: the edit title and the save labels are
\* shown exactly when the editing target is present, which is exactly when
\* submit invokes update rather than create.
C17_ModeAgreesWithBranch ==
    isFormOpen =>
        /\ (DialogTitle = "Edit Prompt") <=> (editingId # null)
        /\ (SubmitLabel \in {"Save Changes", "Saving..."}) <=> (editingId # null)
        /\ (editingId # null) <=> (SubmitBranch = "updatePrompt")

\* C18: in every reachable state isSubmitting is true exactly when a create
\* or update call is in flight; in particular nothing resets the flag
\* while the call is outstanding.
C18_SubmittingIffInFlight ==
    isSubmitting <=> (saveCalls # EmptyBag)

\* ---------------------------------------------------------- delete claims
\* C19: if the delete of A is in flight and the user has requested the
\* delete of another id B (pending target B, confirmation open), the
\* settlement of A's call leaves the pending target equal to B and the
\* confirmation open.
C19_LaterRequestSurvives ==
    [][(/\ ev'.op \in {"deleteOk", "deleteFail"}
        /\ promptToDelete # null
        /\ promptToDelete # ev'.id
        /\ deleteDialogOpen) =>
          /\ promptToDelete' = promptToDelete
          /\ deleteDialogOpen']_vars

\* ------------------------------------------------------ copy timer claims
\* the oldest pending timer, the one that fires next, is the one scheduled
\* by the copy that set the marker: that copy succeeded and no copy after
\* it did
HeadIsMarkersTimer ==
    /\ timers # <<>>
    /\ Head(timers)
    /\ \A i \in 2..Len(timers) : ~timers[i]

\* C20: after a successful copy on r the marker stays on r until the timer
\* scheduled by that same copy fires or another successful copy happens; a
\* timer scheduled by an earlier copy attempt, successful or failed, never
\* clears the marker set by a later copy.
C20_MarkerOutlivesOlderTimers ==
    [][/\ (copiedId # null /\ copiedId' # copiedId) =>
            (ev'.op = "timer" \/ CopySucceeded(ev'))
       /\ (ev'.op = "timer" /\ copiedId # null) => HeadIsMarkersTimer]_vars

\* ------------------------------------------------- delete and save claims
\* the collection ps with the records of id a removed and the records of
\* id b replaced by u, the others kept in their order
WithoutAndUpdated(ps, a, b, u) ==
    LET kept == SelectSeq(ps, LAMBDA p : p.id # a)
    IN  [i \in 1..Len(kept) |-> IF kept[i].id = b THEN u ELSE kept[i]]

\* C21: when a delete of record A and an update of another record B are in
\* flight together and both succeed, the update returning a record of id B,
\* the final collection is the same whichever call settles first: the
\* collection before the first settlement with A removed and B replaced,
\* the other records in their order; neither settlement undoes the other.
C21_DeleteUpdateCommute ==
    [][/\ ev'.op = "deleteOk" =>
            \A c \in BagToSet(saveCalls) : \A u \in SaveResponses(c) :
                (c.editingId # null /\ c.editingId # ev'.id /\ UpdateContract(c, u)) =>
                    MapReplace(prompts', c.editingId, u)
                        = WithoutAndUpdated(prompts, ev'.id, c.editingId, u)
       /\ (ev'.op = "saveOk" /\ ev'.call.editingId # null
             /\ UpdateContract(ev'.call, ev'.res)) =>
            \A a \in BagToSet(deleteCalls) :
                a # ev'.call.editingId =>
                    FilterOut(prompts', a)
                        = WithoutAndUpdated(prompts, a, ev'.call.editingId, ev'.res)
       /\ (ev.op = "deleteOk" /\ ev'.op = "saveOk" /\ ev'.call.editingId # null
             /\ UpdateContract(ev'.call, ev'.res) /\ ev'.call.editingId # ev.id) =>
            /\ ev.id \notin IdsOf(prompts')
            /\ \A i \in 1..Len(prompts') :
                  prompts'[i].id = ev'.res.id => prompts'[i] = ev'.res
       /\ (ev.op = "saveOk" /\ ev.call.editingId # null
             /\ UpdateContract(ev.call, ev.res)
             /\ ev'.op = "deleteOk" /\ ev'.id # ev.call.editingId) =>
            /\ ev'.id \notin IdsOf(prompts')
            /\ SelectSeq(prompts', LAMBDA p : p.id = ev.res.id)
                  = SelectSeq(prompts, LAMBDA p : p.id = ev.res.id)]_vars

\* the delete of one record has settled successfully while the update of
\* another record is still in flight, two records remaining
C21_Witness ==
    /\ ev.op = "deleteOk"
    /\ Len(prompts) = 2
    /\ \E c \in BagToSet(saveCalls) :
          /\ c.editingId # null
          /\ c.editingId # ev.id
          /\ c.editingId \in IdsOf(prompts)

\* C22: a record removed by a confirmed deletion never reappears: the
\* successful settlement of the delete of k leaves no element of id k, and
\* from then on no step puts an element of id k into the collection, the
\* settlements of calls already in flight included (an update whose target
\* was k among them), unless a create answers with the id k, which is not
\* fresh, or an update answers with an id it was not given.
C22_DeletedNeverReappears ==
    [][/\ ev'.op = "deleteOk" => ev'.id \notin IdsOf(prompts')
       /\ \A k \in Ids :
            k \notin IdsOf(prompts) =>
                \/ k \notin IdsOf(prompts')
                \/ /\ ev'.op = "saveOk"
                   /\ ev'.call.editingId = null
                   /\ ev'.res.id = k
                \/ /\ ev'.op = "saveOk"
                   /\ ev'.call.editingId # null
                   /\ ~UpdateContract(ev'.call, ev'.res)]_vars

\* the update of record 0, in flight when the delete of record 0 settled,
\* has settled successfully with a record of id 0: record 1 is all that
\* the collection holds
C22_Witness ==
    /\ ev.op = "saveOk"
    /\ ev.call.editingId = 0
    /\ ev.res.id = 0
    /\ prompts = <<initialPrompts[2]>>

\* ---------------------------------------------------- fallback copy claim
\* C23: on the fallback copy path the temporary textarea is removed
\* regardless of outcome: whether execCommand returns true, returns false
\* or throws, no textarea remains attached to the document once the copy
\* handler has finished.
C23_TextAreaRemoved ==
    [][ev'.op = "copyFallback" => textAreas' = 0]_vars

\* a fallback copy in which execCommand threw has finished
C23_Witness ==
    /\ ev.op = "copyFallback"
    /\ ev.outcome = "throw"
    /\ ev.toast = "error"
    /\ textAreas = 0
====
